---- MODULE Spec2Model ----
(***************************************************************************)
(* Ride fare / ETA predictor (scripts/advanced_ride_predictor.py).         *)
(*                                                                         *)
(* Representation of the program's numbers:                                *)
(*   - coordinates are integers in units of 1/10000 degree;                *)
(*   - distances ("distance_km") are integers in centimetres, KM per km;   *)
(*   - angles in radians and the values of sin, cos, sqrt are fixed-point  *)
(*     with ANG fraction bits; the haversine term a has HAV fraction bits; *)
(*   - surge multipliers are in tenths (15 is 1.5x);                       *)
(*   - None is the model value None (0 for the two cached models).         *)
(* All arithmetic stays inside TLC's 32-bit integers: a product of two     *)
(* fixed-point numbers is formed as a double word (MulWide).               *)
(***************************************************************************)
EXTENDS Integers, Sequences, FiniteSets, TLC

VARIABLES
    fare_model_,   \* global _fare_model: 0 (None) or the id of the training run that made it
    eta_model_,    \* global _eta_model:  0 (None) or the id of the training run that made it
    train_runs,    \* number of executions of train_models so far
    direct_runs,   \* those of them that the program called itself (as line 270 does)
    call,          \* the arguments of the current / last call
    ret,           \* the outcome of the last call
    th,            \* concurrent callers of get_trained_models: position and locals
    data           \* generate_synthetic_data: the list `data` built so far

vars == <<fare_model_, eta_model_, train_runs, direct_runs, call, ret, th, data>>

None == "None"

----------------------------------------------------------------------------
(* Fixed-point arithmetic standing for the float operations of the code.    *)

KM == 100000
ANG == 29
HAV == 44

Q15 == 2^15
Q30 == 2^30
ONE == 2^ANG

Abs(x) == IF x < 0 THEN -x ELSE x

\* the value of an operation applied outside the range it is modelled for;
\* arithmetic on it stops the evaluation
OutOfDomain == "OutOfDomain"

\* x / n, rounded toward zero
TruncDiv(x, n) == IF x >= 0 THEN x \div n ELSE -((-x) \div n)

\* a * b for 0 <= a, b < 2^30, as the double word <<hi, lo>>: a*b = hi*2^30 + lo
WideCarry(high, low) == <<high + (low \div Q30), low % Q30>>

WideSum(high, mid, low) == WideCarry(high + (mid \div Q15), (mid % Q15) * Q15 + low)

WideParts(a1, a0, b1, b0) == WideSum(a1 * b1, a1 * b0 + a0 * b1, a0 * b0)

MulWide(a, b) == WideParts(a \div Q15, a % Q15, b \div Q15, b % Q15)

\* floor(a * b / 2^k), 1 <= k <= 30
WideShift(w, k) == w[1] * 2^(30 - k) + (w[2] \div 2^k)

MulShift(a, b, k) == WideShift(MulWide(a, b), k)

\* signed product, rounded toward zero
SMulShift(a, b, k) ==
    (IF (a < 0) = (b < 0) THEN 1 ELSE -1) * MulShift(Abs(a), Abs(b), k)

\* v * 2^k as a double word, 1 <= k <= 30
WideOf(v, k) == <<v \div 2^(30 - k), (v % 2^(30 - k)) * 2^k>>

WideLeq(p, q) == p[1] < q[1] \/ (p[1] = q[1] /\ p[2] <= q[2])

\* three bits of a square root: the largest r + e * 2^i, e in 0 .. 7, whose square
\* stays within target
SqrtDigit(target, r, i) ==
    r + 2^i * Cardinality({e \in 1 .. 7 :
                            WideLeq(MulWide(r + e * 2^i, r + e * 2^i), target)})

RECURSIVE SqrtBits(_, _, _)
SqrtBits(target, r, i) ==
    IF i < 0 THEN r
    ELSE LET d == SqrtDigit(target, r, i)
         IN  IF d >= r THEN SqrtBits(target, d, i - 3) ELSE r

\* math.sqrt: floor(sqrt(v * 2^k)), the square root of a number with f fraction
\* bits to (f + k) / 2 fraction bits; 1 <= k <= 30, result below 2^30
SqrtShift(v, k) ==
    IF v < 0 THEN OutOfDomain ELSE SqrtBits(WideOf(v, k), 0, 27)

\* three bits of a quotient: <<q, r>> becomes <<8q + e, 8r - e * x>> for the
\* largest e in 0 .. 7 with e * x <= 8r
DivStep(q, w, e, m) == <<8 * q + e, (w[1] - m[1]) * Q30 + (w[2] - m[2])>>

DivChoose(q, w, e, x) == DivStep(q, w, e, MulWide(e, x))

DivDigit(qr, x) ==
    DivChoose(qr[1], WideOf(qr[2], 3),
              Cardinality({f \in 1 .. 7 : WideLeq(MulWide(f, x), WideOf(qr[2], 3))}), x)

RECURSIVE DivBits(_, _, _)
DivBits(qr, x, k) ==
    IF k = 0 THEN qr[1]
    ELSE LET d == DivDigit(qr, x)
         IN  IF d[1] >= qr[1] THEN DivBits(d, x, k - 3) ELSE qr[1]

\* floor(y * 2^k / x) for 0 <= y <= x, 0 < x < 2^30, k <= 30
DivShift(y, x, k) ==
    IF y < 0 \/ x <= 0 \/ y > x THEN OutOfDomain
    ELSE DivBits(<<y \div x, y % x>>, x, 30) \div 2^(30 - k)

\* number of terms of the power series of sin, cos and atan
SeriesTerms == 8

\* math.radians: pi/180 per degree, i.e. RAD_PER_UNIT / 2^20 angle units per coordinate unit
RAD_PER_UNIT == 982533021

math_radians(x) == SMulShift(x, RAD_PER_UNIT, 20)

\* pi/2 in angle units
HALF_PI == 843314856

RECURSIVE SinSeries(_, _, _, _)
SinSeries(x2, t, n, acc) ==
    IF n = SeriesTerms \/ t = 0 THEN acc
    ELSE SinSeries(x2, -TruncDiv(SMulShift(t, x2, ANG), (2 * n + 2) * (2 * n + 3)),
                   n + 1, acc + t)

\* math.sin for |x| <= pi/2: x - x^3/3! + x^5/5! - ...
math_sin(x) ==
    IF Abs(x) > HALF_PI THEN OutOfDomain ELSE SinSeries(SMulShift(x, x, ANG), x, 0, 0)

RECURSIVE CosSeries(_, _, _, _)
CosSeries(x2, t, n, acc) ==
    IF n = SeriesTerms \/ t = 0 THEN acc
    ELSE CosSeries(x2, -TruncDiv(SMulShift(t, x2, ANG), (2 * n + 1) * (2 * n + 2)),
                   n + 1, acc + t)

\* math.cos for |x| <= pi/2: 1 - x^2/2! + x^4/4! - ...
math_cos(x) ==
    IF Abs(x) > HALF_PI THEN OutOfDomain ELSE CosSeries(SMulShift(x, x, ANG), ONE, 0, 0)

\* the power series of atan is summed for 0 <= t <= 1/4 only (t^2 <= 1/16), where
\* SeriesTerms terms leave a remainder below one unit
RECURSIVE AtanSeries(_, _, _, _)
AtanSeries(t2, p, n, acc) ==
    IF t2 < 0 \/ t2 > ONE \div 16 \/ Abs(p) > ONE \div 4 THEN OutOfDomain
    ELSE IF n = SeriesTerms \/ p = 0 THEN acc
    ELSE AtanSeries(t2, -SMulShift(p, t2, ANG), n + 1, acc + TruncDiv(p, 2 * n + 1))

AtanOf(t) ==
    IF t < 0 \/ t > ONE \div 4 THEN OutOfDomain
    ELSE AtanSeries(MulShift(t, t, ANG), t, 0, 0)

\* math.atan2(y, x) for 0 <= y <= x / 4, 0 < x: atan(y/x) = t - t^3/3 + t^5/5 - ...
math_atan2(y, x) ==
    IF y < 0 \/ x <= 0 \/ y > x \div 4 THEN OutOfDomain
    ELSE AtanOf(DivShift(y, x, ANG))

----------------------------------------------------------------------------
(* haversine_distance: coordinates in 1/10000 degree, result in cm.        *)
(* HaversineFormula is the body of the function, lines 17-27, in fixed      *)
(* point.  Its value is the float of the code to within HaversineError cm, *)
(* for two points at most MaxSeparation apart in latitude and in longitude *)
(* that are the same point or at least MinDistance cm apart; Haversine has *)
(* no value elsewhere.  A comparison of a distance with a limit has a      *)
(* value only when the distance is more than HaversineError from the limit.*)

R == 6371

\* line 24: math.sin(...)**2, to HAV fraction bits
Squared(s) == MulShift(Abs(s), Abs(s), 2 * ANG - HAV)

\* line 25
CentralAngle(a) ==
    2 * math_atan2(SqrtShift(a, 2 * ANG - HAV),
                   SqrtShift(ONE - (a \div 2^(HAV - ANG)), ANG))

HaversineFormula(lat1, lon1, lat2, lon2) ==
    LET lat1_rad == math_radians(lat1)
        lon1_rad == math_radians(lon1)
        lat2_rad == math_radians(lat2)
        lon2_rad == math_radians(lon2)
        dlon == lon2_rad - lon1_rad
        dlat == lat2_rad - lat1_rad
        a == Squared(math_sin(TruncDiv(dlat, 2)))
             + MulShift(MulShift(math_cos(lat1_rad), math_cos(lat2_rad), ANG),
                        Squared(math_sin(TruncDiv(dlon, 2))), ANG)
        c == CentralAngle(a)
        distance == MulShift(c, R * KM, ANG)
    IN  distance

HaversineError == 10
MinDistance == 50000
MaxSeparation == 6000

InRange(lat1, lon1, lat2, lon2) ==
    /\ Abs(lat1) <= 900000 /\ Abs(lat2) <= 900000
    /\ Abs(lon1) <= 1800000 /\ Abs(lon2) <= 1800000
    /\ Abs(lat2 - lat1) <= MaxSeparation /\ Abs(lon2 - lon1) <= MaxSeparation

Represented(lat1, lon1, lat2, lon2) ==
    /\ InRange(lat1, lon1, lat2, lon2)
    /\ \/ (lat1 = lat2 /\ lon1 = lon2)
       \/ HaversineFormula(lat1, lon1, lat2, lon2) >= MinDistance

Haversine(lat1, lon1, lat2, lon2) ==
    IF Represented(lat1, lon1, lat2, lon2)
    THEN HaversineFormula(lat1, lon1, lat2, lon2)
    ELSE OutOfDomain

\* the distance is far enough from the limit for the comparison of the float
\* with the limit to come out as the comparison of the fixed-point value does
Decided(distance, limit) == Abs(distance - limit) > HaversineError

SURGE_ZONE_CENTERS == <<
    <<237800, 904100, 15>>,
    <<237500, 903800, 13>>,
    <<237200, 904000, 18>> >>

\* The coordinates the specifications below call the functions with: a grid of
\* pickups around each surge zone centre (GridSteps steps of GridPitch each way),
\* and the pickups and destinations of the predict calls.
GridSteps == 4
GridPitch == 50

SurgeOffsets == {GridPitch * k : k \in -GridSteps .. GridSteps}

SurgeGrid ==
    (UNION {{<<SURGE_ZONE_CENTERS[i][1] + dy, SURGE_ZONE_CENTERS[i][2] + dx>> :
               dy \in SurgeOffsets, dx \in SurgeOffsets} : i \in 1 .. 3})
    \cup {<<237350, 903900>>, <<238070, 903680>>, <<237850, 904150>>,
          <<240000, 904000>>}

PickupPoints == {<<237850, 904150>>, <<238070, 903680>>, <<237200, 904000>>}
DestinationPoints == {<<238200, 904220>>, <<238759, 903978>>, <<240000, 904000>>,
                      <<243000, 904000>>}

\* haversine_distance is a pure function: its values on the coordinates above
\* are computed once
HaversineKeys ==
    {<<p[1], p[2], SURGE_ZONE_CENTERS[i][1], SURGE_ZONE_CENTERS[i][2]>> :
        p \in SurgeGrid \cup PickupPoints, i \in 1 .. 3}
    \cup {<<p[1], p[2], d[1], d[2]>> : p \in PickupPoints, d \in DestinationPoints}

RepresentedTable == [q \in HaversineKeys |-> Represented(q[1], q[2], q[3], q[4])]

HaversineTable == [q \in HaversineKeys |-> Haversine(q[1], q[2], q[3], q[4])]

\* the model has a value for the distance of the two points
HasDistance(lat1, lon1, lat2, lon2) ==
    IF <<lat1, lon1, lat2, lon2>> \in HaversineKeys
    THEN RepresentedTable[<<lat1, lon1, lat2, lon2>>]
    ELSE Represented(lat1, lon1, lat2, lon2)

haversine_distance(lat1, lon1, lat2, lon2) ==
    IF <<lat1, lon1, lat2, lon2>> \in HaversineKeys
    THEN HaversineTable[<<lat1, lon1, lat2, lon2>>]
    ELSE Haversine(lat1, lon1, lat2, lon2)

----------------------------------------------------------------------------
(* Surge zones.                                                            *)

SURGE_RADIUS_KM == 2 * KM

NoSurge == 10

RECURSIVE SurgeLoop(_, _, _)
SurgeLoop(pickup_lat, pickup_lon, i) ==
    IF i > Len(SURGE_ZONE_CENTERS) THEN NoSurge
    ELSE LET center_lat == SURGE_ZONE_CENTERS[i][1]
             center_lon == SURGE_ZONE_CENTERS[i][2]
             multiplier == SURGE_ZONE_CENTERS[i][3]
             dist == haversine_distance(pickup_lat, pickup_lon, center_lat, center_lon)
         IN  IF ~HasDistance(pickup_lat, pickup_lon, center_lat, center_lon)
             THEN OutOfDomain
             ELSE IF ~Decided(dist, SURGE_RADIUS_KM) THEN OutOfDomain
             ELSE IF dist <= SURGE_RADIUS_KM THEN multiplier
             ELSE SurgeLoop(pickup_lat, pickup_lon, i + 1)

\* a faulty resolver, whose loop skips the first zone
get_surge_multiplier_SkipFirst(pickup_lat, pickup_lon) == SurgeLoop(pickup_lat, pickup_lon, 2)

get_surge_multiplier(pickup_lat, pickup_lon) == SurgeLoop(pickup_lat, pickup_lon, 1)

\* the distance of the pickup to every zone centre has a value and is more than
\* HaversineError from the radius: the loop of get_surge_multiplier has a value
SurgeDecided(pickup_lat, pickup_lon) ==
    \A i \in 1 .. Len(SURGE_ZONE_CENTERS) :
        /\ HasDistance(pickup_lat, pickup_lon, SURGE_ZONE_CENTERS[i][1],
                       SURGE_ZONE_CENTERS[i][2])
        /\ Decided(haversine_distance(pickup_lat, pickup_lon, SURGE_ZONE_CENTERS[i][1],
                                       SURGE_ZONE_CENTERS[i][2]), SURGE_RADIUS_KM)

\* the pickups of the grid for which get_surge_multiplier has a value
SurgePickups == {p \in SurgeGrid : SurgeDecided(p[1], p[2])}

----------------------------------------------------------------------------
(* get_prediction_confidence.                                              *)

Max2(x, y) == IF x >= y THEN x ELSE y
Min2(x, y) == IF x <= y THEN x ELSE y

\* Python truth value of the is_rainy argument (0 / 1)
Truthy(v) == v # 0

\* a faulty estimator, whose distance penalty starts at 30 km instead of above it
get_prediction_confidence_AtThirty(distance_km, time_of_day_hour, is_rainy, ride_category) ==
    LET s0 == 3
        s1 == IF distance_km >= 30 * KM THEN s0 - 1 ELSE s0
        s2 == IF (7 <= time_of_day_hour /\ time_of_day_hour <= 9)
                 \/ (17 <= time_of_day_hour /\ time_of_day_hour <= 19)
              THEN s1 - 1 ELSE s1
        s3 == IF Truthy(is_rainy) THEN s2 - 1 ELSE s2
        s4 == IF ride_category \in {3, 4} THEN s3 - 1 ELSE s3
        confidence_score == Max2(1, s4)
    IN  IF confidence_score = 3 THEN "High"
        ELSE IF confidence_score = 2 THEN "Medium"
        ELSE "Low"

get_prediction_confidence(distance_km, time_of_day_hour, is_rainy, ride_category) ==
    LET s0 == 3
        s1 == IF distance_km > 30 * KM THEN s0 - 1 ELSE s0
        s2 == IF (7 <= time_of_day_hour /\ time_of_day_hour <= 9)
                 \/ (17 <= time_of_day_hour /\ time_of_day_hour <= 19)
              THEN s1 - 1 ELSE s1
        s3 == IF Truthy(is_rainy) THEN s2 - 1 ELSE s2
        s4 == IF ride_category \in {3, 4} THEN s3 - 1 ELSE s3
        confidence_score == Max2(1, s4)
    IN  IF confidence_score = 3 THEN "High"
        ELSE IF confidence_score = 2 THEN "Medium"
        ELSE "Low"

----------------------------------------------------------------------------
(* get_recommended_destination.  A str is the sequence of its characters.  *)

UPPERCASE == <<"A", "B", "C", "D", "E", "F", "G", "H", "I", "J", "K", "L", "M",
               "N", "O", "P", "Q", "R", "S", "T", "U", "V", "W", "X", "Y", "Z">>
LOWERCASE == <<"a", "b", "c", "d", "e", "f", "g", "h", "i", "j", "k", "l", "m",
               "n", "o", "p", "q", "r", "s", "t", "u", "v", "w", "x", "y", "z">>

\* the ASCII characters that str.lower() leaves as they are
UNCASED == {LOWERCASE[j] : j \in 1 .. Len(LOWERCASE)}
    \cup {"0", "1", "2", "3", "4", "5", "6", "7", "8", "9"}
    \cup {" ", "!", "#", "$", "%", "&", "'", "(", ")", "*", "+", ",", "-", ".", "/",
          ":", ";", "<", "=", ">", "?", "@", "[", "]", "^", "_", "{", "|", "}", "~"}

\* the text is made of the ASCII characters above and of ASCII capitals: the
\* texts for which str.lower() is modelled
IsAscii(s) ==
    \A i \in 1 .. Len(s) :
        s[i] \in UNCASED \/ \E j \in 1 .. Len(UPPERCASE) : UPPERCASE[j] = s[i]

\* a faulty line 164, which leaves the name as given
str_lower_Identity(s) == s

\* str.lower() on ASCII text; no value on other text
str_lower(s) ==
    IF ~IsAscii(s) THEN OutOfDomain
    ELSE [i \in 1 .. Len(s) |->
            IF \E j \in 1 .. Len(UPPERCASE) : UPPERCASE[j] = s[i]
            THEN LOWERCASE[CHOOSE j \in 1 .. Len(UPPERCASE) : UPPERCASE[j] = s[i]]
            ELSE s[i]]

\* the str operator `sub in s`
str_in(sub, s) ==
    \E i \in 1 .. (Len(s) - Len(sub) + 1) : SubSeq(s, i, i + Len(sub) - 1) = sub

KW_GULSHAN == <<"g", "u", "l", "s", "h", "a", "n">>
KW_DHANMONDI == <<"d", "h", "a", "n", "m", "o", "n", "d", "i">>
KW_MIRPUR == <<"m", "i", "r", "p", "u", "r">>

get_recommended_destination(pickup_location_name) ==
    LET name == str_lower(pickup_location_name)
    IN  IF ~IsAscii(pickup_location_name) THEN OutOfDomain
        ELSE IF str_in(KW_GULSHAN, name) THEN "Bashundhara R/A"
        ELSE IF str_in(KW_DHANMONDI, name) THEN "Motijheel"
        ELSE IF str_in(KW_MIRPUR, name) THEN "Uttara"
        ELSE None

----------------------------------------------------------------------------
(* generate_synthetic_data.  fare_bdt is in units of 1/KM BDT (distance in  *)
(* cm times BDT per km); eta_minutes in units of 1/(10 KM) minute (distance *)
(* in cm times a multiplier in tenths).                                     *)

BDT == KM
MINUTE == 10 * KM

\* lines 41-65: base_fare_bdt, cost_per_km_bdt, eta_multiplier (tenths), max_distance
CategoryProfile(ride_category) ==
    IF ride_category = 0
    THEN [base_fare_bdt |-> 50, cost_per_km_bdt |-> 25, eta_multiplier |-> 10, max_distance |-> 30]
    ELSE IF ride_category = 1
    THEN [base_fare_bdt |-> 100, cost_per_km_bdt |-> 40, eta_multiplier |-> 8, max_distance |-> 50]
    ELSE IF ride_category = 2
    THEN [base_fare_bdt |-> 30, cost_per_km_bdt |-> 15, eta_multiplier |-> 7, max_distance |-> 40]
    ELSE IF ride_category = 3
    THEN [base_fare_bdt |-> 20, cost_per_km_bdt |-> 10, eta_multiplier |-> 15, max_distance |-> 10]
    ELSE [base_fare_bdt |-> 35, cost_per_km_bdt |-> 18, eta_multiplier |-> 12, max_distance |-> 20]

\* a faulty line 78, without the floor at the base fare
NoisyFare_NoFloor(base_fare_bdt, fare, noise) == fare + noise

\* lines 78-79: the noise is added and the result floored
NoisyFare(base_fare_bdt, fare, noise) == Max2(base_fare_bdt * BDT, fare + noise)
NoisyEta(eta, noise) == Max2(5 * MINUTE, eta + noise)

\* one iteration of the loop, lines 34-81, for the values the random draws gave
Sample(distance_km, time_of_day_hour, day_of_week, is_rainy, ride_category, fare_noise, eta_noise) ==
    LET p == CategoryProfile(ride_category)
        current_distance_km == Min2(distance_km, p.max_distance * KM)
        fare_linear_base == current_distance_km * p.cost_per_km_bdt + p.base_fare_bdt * BDT
        eta_linear_base == current_distance_km * 2 * p.eta_multiplier
        fare == fare_linear_base + (time_of_day_hour * 3) * BDT + (day_of_week * 5) * BDT
                + (is_rainy * 70) * BDT
        eta == eta_linear_base + (time_of_day_hour * MINUTE) \div 2 + day_of_week * MINUTE
               + (is_rainy * 10) * MINUTE
    IN  [distance_km |-> current_distance_km,
         time_of_day_hour |-> time_of_day_hour,
         day_of_week |-> day_of_week,
         is_rainy |-> is_rainy,
         ride_category |-> ride_category,
         fare_bdt |-> NoisyFare(p.base_fare_bdt, fare, fare_noise),
         eta_minutes |-> NoisyEta(eta, eta_noise)]

----------------------------------------------------------------------------
(* train_models and the process-wide model cache.  A trained model is      *)
(* known by the number of the training run that made it.                   *)

\* lines 87-110: the run that follows `runs` earlier ones returns a fresh pair
train_models(runs) == <<runs + 1, runs + 1>>

\* a faulty test of the cache, which finds it empty every time
NeedsTraining_Always(fare, eta) == TRUE

\* line 179
NeedsTraining(fare, eta) == fare = 0 \/ eta = 0

\* lines 177-185, run without interruption: the globals and the run count
\* after the call; the pair returned is the pair of globals
get_trained_models(fare, eta, runs) ==
    IF NeedsTraining(fare, eta)
    THEN [fare |-> train_models(runs)[1], eta |-> train_models(runs)[2],
          runs |-> runs + 1, trained |-> TRUE]
    ELSE [fare |-> fare, eta |-> eta, runs |-> runs, trained |-> FALSE]

----------------------------------------------------------------------------
(* predict_ride_details_advanced.                                          *)
(* A Python value is a record with its type t: a float / int carries v,    *)
(* a tuple or str carries items (the characters, for a str).               *)

Float(x) == [t |-> "float", v |-> x]
Str1(ch) == [t |-> "str", items |-> <<ch>>]
Tuple(xs) == [t |-> "tuple", items |-> xs]
StrValue(chars) == [t |-> "str", items |-> [i \in 1 .. Len(chars) |-> Str1(chars[i])]]
NoneValue == [t |-> "NoneType"]

\* lines 191-192: `a, b = x`
Unpack2(x) ==
    IF x.t \notin {"tuple", "str"} THEN [exc |-> "TypeError"]
    ELSE IF Len(x.items) # 2 THEN [exc |-> "ValueError"]
    ELSE [exc |-> None, first |-> x.items[1], second |-> x.items[2]]

\* math.radians accepts real numbers only
IsReal(x) == x.t = "float"

max_distance_map == [c \in {0, 1, 2, 3, 4} |->
    IF c = 0 THEN 30 ELSE IF c = 1 THEN 50 ELSE IF c = 2 THEN 40
    ELSE IF c = 3 THEN 10 ELSE 20]

\* line 200: max_distance_map.get(ride_category, 50), in km
MaxDistanceFor(ride_category) ==
    IF ride_category \in DOMAIN max_distance_map THEN max_distance_map[ride_category]
    ELSE 50

\* a faulty line 200, which leaves the distance as computed
ClampDistance_None(distance_km, ride_category) == distance_km

\* line 200
ClampDistance(distance_km, ride_category) ==
    Min2(distance_km, MaxDistanceFor(ride_category) * KM)

\* faulty lines 226-230, without the moderate windows
TimeImpact_RushOnly(time_of_day_hour) ==
    IF (7 <= time_of_day_hour /\ time_of_day_hour <= 9)
       \/ (17 <= time_of_day_hour /\ time_of_day_hour <= 19)
    THEN 25
    ELSE 5

\* lines 226-230
TimeImpact(time_of_day_hour) ==
    IF (7 <= time_of_day_hour /\ time_of_day_hour <= 9)
       \/ (17 <= time_of_day_hour /\ time_of_day_hour <= 19)
    THEN 25
    ELSE IF (10 <= time_of_day_hour /\ time_of_day_hour <= 11)
            \/ (12 <= time_of_day_hour /\ time_of_day_hour <= 16)
            \/ (20 <= time_of_day_hour /\ time_of_day_hour <= 21)
    THEN 15
    ELSE 5

\* lines 233-238 and, with the same text, 241-246
DemandImpact(is_rainy, surge_applied_status) ==
    Min2(5 + (IF Truthy(is_rainy) THEN 10 ELSE 0)
           + (IF surge_applied_status THEN 15 ELSE 0), 40)

\* x / n is more than err / n from the middle between two integers: the float
\* that x stands for to within err rounds as x does
RoundDecided(x, n, err) == Abs(2 * (x % n) - n) > 2 * err

\* x / n rounded to the nearest integer (x >= 0); no value at a tie, where the
\* format spec rounds by the binary digits of the float
RoundDiv(x, n, err) ==
    IF RoundDecided(x, n, err) THEN (2 * x + n) \div (2 * n) ELSE OutOfDomain

\* f"{predicted_fare:.2f} BDT": the fare, in hundredths of a BDT, after the
\* surge multiplier (tenths)
FormatFare(predicted_fare, surge_multiplier) ==
    IF RoundDecided(predicted_fare * surge_multiplier, 10, 0)
    THEN [amount |-> RoundDiv(predicted_fare * surge_multiplier, 10, 0), unit |-> "BDT"]
    ELSE OutOfDomain

\* f"{int(predicted_eta)} mins": predicted_eta in hundredths of a minute
FormatEta(predicted_eta) == [amount |-> predicted_eta \div 100, unit |-> "mins"]

\* f"{distance_km:.2f} km": hundredths of a km
FormatDistance(distance_km) ==
    IF RoundDecided(distance_km, KM \div 100, HaversineError)
    THEN [amount |-> RoundDiv(distance_km, KM \div 100, HaversineError), unit |-> "km"]
    ELSE OutOfDomain

ErrorPayload == [error |-> "Invalid coordinates format. Expected (latitude, longitude)."]

\* the texts of the result have a value: no rounding of line 258 or 260 is at
\* a tie, and the pickup name is ASCII text
Formattable(c, distance_km, surge_multiplier) ==
    /\ RoundDecided(c.predicted[1] * surge_multiplier, 10, 0)
    /\ RoundDecided(distance_km, KM \div 100, HaversineError)
    /\ IsAscii(c.pickup_location_name)

\* lines 203-265, for the clamped distance and the surge multiplier
PredictResult(c, distance_km, surge_multiplier) ==
    LET features == <<distance_km, c.time_of_day_hour, c.day_of_week, c.is_rainy,
                      c.ride_category>>
        surge_applied_status == surge_multiplier > NoSurge
        time_impact_val == TimeImpact(c.time_of_day_hour)
        demand_impact_val == DemandImpact(c.is_rainy, surge_applied_status)
        loc_sit_impact_val == DemandImpact(c.is_rainy, surge_applied_status)
    IN  [outcome |-> "return",
         value |->
           [fare |-> FormatFare(c.predicted[1], surge_multiplier),
            eta |-> FormatEta(c.predicted[2]),
            distance_km |-> FormatDistance(distance_km),
            surge_applied |-> surge_applied_status,
            prediction_confidence |->
                get_prediction_confidence(distance_km, c.time_of_day_hour, c.is_rainy,
                                          c.ride_category),
            recommended_destination |->
                get_recommended_destination(c.pickup_location_name),
            feature_impacts |->
                [distance |-> 38,
                 time_of_day |-> time_impact_val,
                 demand_level |-> demand_impact_val,
                 location_situation |-> loc_sit_impact_val]],
         features |-> features,
         confidence_distance |-> distance_km,
         surge_multiplier |-> surge_multiplier]

\* lines 200-265: the distance is clamped; the test distance_km > 30 of line 140
\* on the clamped distance has no value when the clamp leaves a distance that is
\* within HaversineError of 30 km
PredictClamped(c, distance_km, surge_multiplier) ==
    IF MaxDistanceFor(c.ride_category) > 30 /\ ~Decided(distance_km, 30 * KM)
    THEN [outcome |-> OutOfDomain]
    ELSE IF ~Formattable(c, ClampDistance(distance_km, c.ride_category), surge_multiplier)
    THEN [outcome |-> OutOfDomain]
    ELSE PredictResult(c, ClampDistance(distance_km, c.ride_category), surge_multiplier)

\* lines 196-265, for unpacked coordinates that are real numbers: the clamped
\* distance (196-200) and the surge multiplier (210) feed the rest
PredictBody(c, pickup_lat, pickup_lon, dest_lat, dest_lon) ==
    IF ~HasDistance(pickup_lat, pickup_lon, dest_lat, dest_lon)
       \/ ~SurgeDecided(pickup_lat, pickup_lon)
    THEN [outcome |-> OutOfDomain]
    ELSE PredictClamped(c, haversine_distance(pickup_lat, pickup_lon, dest_lat, dest_lon),
                        get_surge_multiplier(pickup_lat, pickup_lon))

\* lines 190-265: what the call returns or raises once the models are at hand
PredictOutcome(c) ==
    LET p == Unpack2(c.pickup_coords)
        d == Unpack2(c.destination_coords)
    IN  IF p.exc # None \/ d.exc # None
        THEN [outcome |-> "return", value |-> ErrorPayload]
        ELSE IF ~(IsReal(p.first) /\ IsReal(p.second) /\ IsReal(d.first) /\ IsReal(d.second))
        THEN [outcome |-> "raise", value |-> "TypeError"]
        ELSE PredictBody(c, p.first.v, p.second.v, d.first.v, d.second.v)

\* lines 187-265: the models are obtained first (line 188), then the rest runs
predict_ride_details_advanced(c, fare, eta, runs) ==
    LET g == get_trained_models(fare, eta, runs)
    IN  [globals |-> g,
         result |-> [op |-> "predict_ride_details_advanced",
                     models |-> <<g.fare, g.eta>>,
                     trained |-> g.trained] @@ PredictOutcome(c)]

----------------------------------------------------------------------------
(* The process: sequential calls of predict_ride_details_advanced,         *)
(* get_trained_models and train_models, one at a time.                     *)

NoCall == [op |-> "none"]
NoRet == [op |-> "none"]
Pending == [op |-> "pending"]

Pair(lat, lon) == Tuple(<<Float(lat), Float(lon)>>)

GULSHAN == Pair(237850, 904150)
MIRPUR == Pair(238070, 903680)
MOTIJHEEL == Pair(237200, 904000)
BASHUNDHARA == Pair(238200, 904220)
UTTARA == Pair(238759, 903978)
SAVAR_ROAD == Pair(240000, 904000)
MYMENSINGH_ROAD == Pair(243000, 904000)

TRIPLE == Tuple(<<Float(237850), Float(904150), Float(0)>>)
TEXT_PAIR == Tuple(<<Str1("a"), Str1("b")>>)
INVALID == StrValue(<<"i", "n", "v", "a", "l", "i", "d">>)
TWO_CHARS == StrValue(<<"4", "2">>)

Pickups == {GULSHAN, MIRPUR, MOTIJHEEL, NoneValue, TRIPLE, TEXT_PAIR}
Destinations == {BASHUNDHARA, SAVAR_ROAD, MYMENSINGH_ROAD, INVALID, TWO_CHARS}

GULSHAN_1 == <<"G", "u", "l", "s", "h", "a", "n", " ", "1">>
MIRPUR_10 == <<"M", "i", "r", "p", "u", "r", " ", "1", "0">>
DOWNTOWN == <<"d", "o", "w", "n", "t", "o", "w", "n">>

Categories == {0, 1, 2, 3, 4, 7}

\* what the two regressors answer for a call: <<fare in hundredths of a BDT,
\* eta in hundredths of a minute>>
Predictions == {<<12340, 1990>>, <<61750, 4205>>}

PredictCall(pickup, destination, hour, day, rainy, category, name, predicted) ==
    [op |-> "predict_ride_details_advanced",
     pickup_coords |-> pickup, destination_coords |-> destination,
     time_of_day_hour |-> hour, day_of_week |-> day, is_rainy |-> rainy,
     ride_category |-> category, pickup_location_name |-> name,
     predicted |-> predicted]

PredictCalls ==
    {PredictCall(p, d, 18, 4, r, c, GULSHAN_1, q) :
        p \in Pickups, d \in Destinations, r \in {0, 1}, c \in Categories,
        q \in Predictions}
    \cup
    {PredictCall(p, UTTARA, h, 0, r, 2, n, <<12340, 1990>>) :
        p \in {GULSHAN, MIRPUR}, h \in 0 .. 23, r \in {0, 1},
        n \in {MIRPUR_10, DOWNTOWN}}

Init ==
    /\ fare_model_ = 0 /\ eta_model_ = 0 /\ train_runs = 0 /\ direct_runs = 0
    /\ call = NoCall /\ ret = NoRet
    /\ th = <<>> /\ data = <<>>

\* the number of calls of train_models that the program makes itself
MaxDirectRuns == 2

\* the caller starts a call; the calls are sequential
Invoke ==
    /\ ret # Pending
    /\ \/ \E c \in PredictCalls : call' = c
       \/ call' = [op |-> "get_trained_models"]
       \/ direct_runs < MaxDirectRuns /\ call' = [op |-> "train_models"]
    /\ ret' = Pending
    /\ UNCHANGED <<fare_model_, eta_model_, train_runs, direct_runs, th, data>>

RunGetTrainedModels ==
    /\ ret = Pending /\ call.op = "get_trained_models"
    /\ LET g == get_trained_models(fare_model_, eta_model_, train_runs)
       IN  /\ fare_model_' = g.fare
           /\ eta_model_' = g.eta
           /\ train_runs' = g.runs
           /\ ret' = [op |-> "get_trained_models", outcome |-> "return",
                      models |-> <<g.fare, g.eta>>, trained |-> g.trained]
    /\ UNCHANGED <<direct_runs, call, th, data>>

\* a call of train_models by the program (line 270): a training run, whose
\* pair is returned to the caller and leaves the globals as they are
RunTrainModels ==
    /\ ret = Pending /\ call.op = "train_models"
    /\ train_runs' = train_runs + 1
    /\ direct_runs' = direct_runs + 1
    /\ ret' = [op |-> "train_models", outcome |-> "return",
               models |-> train_models(train_runs), trained |-> TRUE]
    /\ UNCHANGED <<fare_model_, eta_model_, call, th, data>>

RunPredict ==
    /\ ret = Pending /\ call.op = "predict_ride_details_advanced"
    /\ LET Effect(r) ==
               /\ fare_model_' = r.globals.fare
               /\ eta_model_' = r.globals.eta
               /\ train_runs' = r.globals.runs
               /\ ret' = r.result
       IN  Effect(predict_ride_details_advanced(call, fare_model_, eta_model_, train_runs))
    /\ UNCHANGED <<direct_runs, call, th, data>>

Next == Invoke \/ RunGetTrainedModels \/ RunTrainModels \/ RunPredict

Spec == Init /\ [][Next]_vars

----------------------------------------------------------------------------
(* Concurrent callers of get_trained_models (line 188 of each predict      *)
(* call), one step per read or write of a global and one per training run. *)

NumThreads == 2

Threads == 1 .. NumThreads

InitConc ==
    /\ fare_model_ = 0 /\ eta_model_ = 0 /\ train_runs = 0 /\ direct_runs = 0
    /\ call = NoCall /\ ret = NoRet /\ data = <<>>
    /\ th = [t \in Threads |-> [pc |-> "test_fare", made |-> <<0, 0>>, got |-> <<0, 0>>]]

\* line 179, left operand: _fare_model is None
TestFare(t) ==
    /\ th[t].pc = "test_fare"
    /\ th' = [th EXCEPT ![t].pc = IF fare_model_ = 0 THEN "train" ELSE "test_eta"]
    /\ UNCHANGED <<fare_model_, eta_model_, train_runs, direct_runs, call, ret, data>>

\* line 179, right operand: _eta_model is None
TestEta(t) ==
    /\ th[t].pc = "test_eta"
    /\ th' = [th EXCEPT ![t].pc = IF eta_model_ = 0 THEN "train" ELSE "load_fare"]
    /\ UNCHANGED <<fare_model_, eta_model_, train_runs, direct_runs, call, ret, data>>

\* line 184, right-hand side: train_models()
Train(t) ==
    /\ th[t].pc = "train"
    /\ train_runs' = train_runs + 1
    /\ th' = [th EXCEPT ![t].pc = "store_fare", ![t].made = train_models(train_runs)]
    /\ UNCHANGED <<direct_runs, fare_model_, eta_model_, call, ret, data>>

\* line 184, first target
StoreFare(t) ==
    /\ th[t].pc = "store_fare"
    /\ fare_model_' = th[t].made[1]
    /\ th' = [th EXCEPT ![t].pc = "store_eta"]
    /\ UNCHANGED <<eta_model_, train_runs, direct_runs, call, ret, data>>

\* line 184, second target
StoreEta(t) ==
    /\ th[t].pc = "store_eta"
    /\ eta_model_' = th[t].made[2]
    /\ th' = [th EXCEPT ![t].pc = "load_fare"]
    /\ UNCHANGED <<fare_model_, train_runs, direct_runs, call, ret, data>>

\* line 185: return _fare_model, ...
LoadFare(t) ==
    /\ th[t].pc = "load_fare"
    /\ th' = [th EXCEPT ![t].pc = "load_eta", ![t].got = <<fare_model_, 0>>]
    /\ UNCHANGED <<fare_model_, eta_model_, train_runs, direct_runs, call, ret, data>>

\* line 185: ..., _eta_model
LoadEta(t) ==
    /\ th[t].pc = "load_eta"
    /\ th' = [th EXCEPT ![t].pc = "done", ![t].got = <<th[t].got[1], eta_model_>>]
    /\ UNCHANGED <<fare_model_, eta_model_, train_runs, direct_runs, call, ret, data>>

NextConc ==
    \E t \in Threads :
        \/ TestFare(t) \/ TestEta(t) \/ Train(t)
        \/ StoreFare(t) \/ StoreEta(t) \/ LoadFare(t) \/ LoadEta(t)

SpecConc == InitConc /\ [][NextConc]_vars

----------------------------------------------------------------------------
(* generate_synthetic_data(num_samples): the loop of lines 33-81, one      *)
(* iteration per step, and the return of lines 83-84.                      *)

NumSamples == 2

GenDistances == {1 * KM, 25 * KM, 50 * KM}
GenContexts == {<<0, 0, 0>>, <<23, 6, 1>>}
GenNoise == {<<-25 * BDT, -5 * MINUTE>>, <<25 * BDT, 5 * MINUTE>>}

InitGen ==
    /\ fare_model_ = 0 /\ eta_model_ = 0 /\ train_runs = 0 /\ direct_runs = 0
    /\ call = [op |-> "generate_synthetic_data", num_samples |-> NumSamples]
    /\ ret = Pending /\ th = <<>> /\ data = <<>>

GenIterate ==
    /\ call.op = "generate_synthetic_data" /\ ret = Pending
    /\ Len(data) < call.num_samples
    /\ \E distance_km \in GenDistances, ctx \in GenContexts,
          ride_category \in 0 .. 4, noise \in GenNoise :
         data' = Append(data, Sample(distance_km, ctx[1], ctx[2], ctx[3],
                                     ride_category, noise[1], noise[2]))
    /\ UNCHANGED <<fare_model_, eta_model_, train_runs, direct_runs, call, ret, th>>

GenReturn ==
    /\ call.op = "generate_synthetic_data" /\ ret = Pending
    /\ Len(data) = call.num_samples
    /\ ret' = [op |-> "generate_synthetic_data", outcome |-> "return", value |-> data]
    /\ UNCHANGED <<fare_model_, eta_model_, train_runs, direct_runs, call, th, data>>

NextGen == GenIterate \/ GenReturn

SpecGen == InitGen /\ [][NextGen]_vars

----------------------------------------------------------------------------
(* Calls of get_prediction_confidence.                                     *)

ConfDistances == {0, 30 * KM - 1, 30 * KM, 30 * KM + 1, 45 * KM, 50 * KM}

InitConf ==
    /\ fare_model_ = 0 /\ eta_model_ = 0 /\ train_runs = 0 /\ direct_runs = 0
    /\ th = <<>> /\ data = <<>>
    /\ \E d \in ConfDistances, h \in 0 .. 23, r \in {0, 1}, c \in Categories :
         call = [op |-> "get_prediction_confidence", distance_km |-> d,
                 time_of_day_hour |-> h, is_rainy |-> r, ride_category |-> c]
    /\ ret = Pending

RunConfidence ==
    /\ call.op = "get_prediction_confidence" /\ ret = Pending
    /\ ret' = [op |-> "get_prediction_confidence", outcome |-> "return",
               value |-> get_prediction_confidence(call.distance_km,
                             call.time_of_day_hour, call.is_rainy, call.ride_category)]
    /\ UNCHANGED <<fare_model_, eta_model_, train_runs, direct_runs, call, th, data>>

SpecConf == InitConf /\ [][RunConfidence]_vars

----------------------------------------------------------------------------
(* Calls of get_recommended_destination on names made of two fragments.    *)

Fragments == {
    <<>>,
    <<"G", "u", "l", "s", "h", "a", "n">>,
    <<"g", "u", "l">>,
    <<"S", "H", "A", "N">>,
    <<"D", "H", "A", "N", "M", "O", "N", "D", "I">>,
    <<"d", "h", "a", "n", "m", "o", "n", "d", "i">>,
    <<"M", "i", "r", "p", "u", "r">>,
    <<"m", "i", "r", "p", "u">>,
    <<" ", "1", "0">>,
    <<" ", "1">>,
    <<"d", "o", "w", "n", "t", "o", "w", "n">> }

Names == {a \o b : a \in Fragments, b \in Fragments}

InitRec ==
    /\ fare_model_ = 0 /\ eta_model_ = 0 /\ train_runs = 0 /\ direct_runs = 0
    /\ th = <<>> /\ data = <<>>
    /\ \E n \in Names :
         call = [op |-> "get_recommended_destination", pickup_location_name |-> n]
    /\ ret = Pending

RunRecommend ==
    /\ call.op = "get_recommended_destination" /\ ret = Pending
    /\ ret' = [op |-> "get_recommended_destination", outcome |-> "return",
               value |-> get_recommended_destination(call.pickup_location_name)]
    /\ UNCHANGED <<fare_model_, eta_model_, train_runs, direct_runs, call, th, data>>

SpecRec == InitRec /\ [][RunRecommend]_vars

----------------------------------------------------------------------------
(* Calls of get_surge_multiplier on a grid of pickups around the zones.    *)

InitSurge ==
    /\ fare_model_ = 0 /\ eta_model_ = 0 /\ train_runs = 0 /\ direct_runs = 0
    /\ th = <<>> /\ data = <<>>
    /\ \E p \in SurgePickups :
         call = [op |-> "get_surge_multiplier", pickup_lat |-> p[1], pickup_lon |-> p[2]]
    /\ ret = Pending

RunSurge ==
    /\ call.op = "get_surge_multiplier" /\ ret = Pending
    /\ ret' = [op |-> "get_surge_multiplier", outcome |-> "return",
               value |-> get_surge_multiplier(call.pickup_lat, call.pickup_lon)]
    /\ UNCHANGED <<fare_model_, eta_model_, train_runs, direct_runs, call, th, data>>

SpecSurge == InitSurge /\ [][RunSurge]_vars

----------------------------------------------------------------------------
(* Properties.                                                             *)

PredictDone == ret.op = "predict_ride_details_advanced"

\* `a, b = x` fails
UnpackFails(x) == x.t \notin {"tuple", "str"} \/ Len(x.items) # 2

\* a coordinate pair is malformed: not iterable, not of two elements, or with
\* an element that is not a number
MalformedCoords(x) ==
    \/ UnpackFails(x)
    \/ \E i \in 1 .. Len(x.items) : x.items[i].t # "float"

MalformedCall ==
    MalformedCoords(call.pickup_coords) \/ MalformedCoords(call.destination_coords)

\* C1: a call of predict_ride_details_advanced whose pickup_coords or
\* destination_coords is malformed returns the error payload and raises no
\* exception.
C1_MalformedReturnsError ==
    (PredictDone /\ MalformedCall)
        => (ret.outcome = "return" /\ ret.value = ErrorPayload)

\* the training runs that get_trained_models made (line 184)
LazyRuns == train_runs - direct_runs

\* a call of predict_ride_details_advanced or get_trained_models completes
CachedCallReturns ==
    ret = Pending /\ ret' # Pending /\ call.op # "train_models"

\* C2: over sequential calls of predict_ride_details_advanced and
\* get_trained_models, train_models runs at most once, and only while the cache
\* is empty; once both globals are set they are never reassigned, and every
\* call that completes returns the cached pair, which the one training run
\* made.  Where the program also calls train_models itself, the runs of the
\* two functions are counted apart from those calls.
C2_TrainedOnceAndReused ==
    [][/\ LazyRuns' <= 1
       /\ (LazyRuns' # LazyRuns) => (fare_model_ = 0 /\ eta_model_ = 0)
       /\ (fare_model_ # 0 /\ eta_model_ # 0)
              => (fare_model_' = fare_model_ /\ eta_model_' = eta_model_)
       /\ CachedCallReturns => ret'.models = <<fare_model_', eta_model_'>>
       /\ (direct_runs' = 0)
              => /\ train_runs' <= 1
                 /\ CachedCallReturns => ret'.models = train_models(0)]_vars

\* a call that found the cache filled and returned the cached pair
C2_Witness ==
    /\ PredictDone /\ ~ret.trained
    /\ train_runs = 1 /\ direct_runs = 0 /\ ret.models = <<1, 1>>
    /\ fare_model_ = 1 /\ eta_model_ = 1

AllDone == \A t \in DOMAIN th : th[t].pc = "done"

\* C3: with concurrent first calls at most one training run executes, and the
\* callers all end up with the same pair, made by one training run.
C3_SingleFlight ==
    /\ train_runs <= 1
    /\ AllDone => \A s, t \in DOMAIN th :
                     th[s].got = th[t].got /\ th[t].got[1] = th[t].got[2]

\* the number k of penalties a call of get_prediction_confidence triggers
PenaltyCount ==
    (IF call.distance_km > 30 * KM THEN 1 ELSE 0)
    + (IF call.time_of_day_hour \in (7 .. 9) \cup (17 .. 19) THEN 1 ELSE 0)
    + (IF call.is_rainy = 1 THEN 1 ELSE 0)
    + (IF call.ride_category \in {3, 4} THEN 1 ELSE 0)

LabelOfScore(score) ==
    IF score = 3 THEN "High" ELSE IF score = 2 THEN "Medium" ELSE "Low"

\* C4: get_prediction_confidence returns High, Medium or Low, and which one is
\* decided by the number k of triggered penalties alone: the label of the score
\* max(1, 3 - k), i.e. High for k = 0, Medium for k = 1, Low for k >= 2.
C4_LabelByPenaltyCount ==
    ret.op = "get_prediction_confidence"
        => /\ ret.value \in {"High", "Medium", "Low"}
           /\ ret.value = LabelOfScore(IF PenaltyCount >= 2 THEN 1 ELSE 3 - PenaltyCount)
           /\ (PenaltyCount = 0) = (ret.value = "High")
           /\ (PenaltyCount = 1) = (ret.value = "Medium")

\* all four penalties fire and the label is Low
C4_Witness ==
    /\ ret.op = "get_prediction_confidence"
    /\ PenaltyCount = 4
    /\ ret.value = "Low"

\* the zones whose centre is within the radius of the pickup of the call
ZonesInReach ==
    {i \in 1 .. 3 :
        haversine_distance(call.pickup_lat, call.pickup_lon,
                           SURGE_ZONE_CENTERS[i][1], SURGE_ZONE_CENTERS[i][2])
            <= 2 * KM}

FirstZoneInReach == CHOOSE i \in ZonesInReach : \A j \in ZonesInReach : i <= j

\* the configured zones: centre (1/10000 degree) and multiplier (tenths)
ConfiguredZones ==
    << [lat |-> 237800, lon |-> 904100, multiplier |-> 15],
       [lat |-> 237500, lon |-> 903800, multiplier |-> 13],
       [lat |-> 237200, lon |-> 904000, multiplier |-> 18] >>

\* C5, without the assumption that the zones do not overlap:
\* get_surge_multiplier returns the multiplier of the first zone, in the order
\* 1.5, 1.3, 1.8, whose centre is at most 2.0 km from the pickup, and 1.0 when no
\* centre is; a pickup at a zone centre gets the multiplier of that zone.
C5_FirstZoneInReach ==
    ret.op = "get_surge_multiplier"
        => /\ (ZonesInReach = {}) => ret.value = 10
           /\ (ZonesInReach # {})
                 => ret.value = ConfiguredZones[FirstZoneInReach].multiplier
           /\ \A i \in 1 .. 3 :
                 (call.pickup_lat = ConfiguredZones[i].lat
                  /\ call.pickup_lon = ConfiguredZones[i].lon)
                     => ret.value = ConfiguredZones[i].multiplier

\* C5 as stated: the same, the zones being non-overlapping (no pickup is within
\* 2.0 km of two centres).
C5_NonOverlappingZones ==
    /\ C5_FirstZoneInReach
    /\ ret.op = "get_surge_multiplier" => Cardinality(ZonesInReach) <= 1

\* a pickup within 2.0 km of the second and of the third centre gets 1.3
C5_Witness ==
    /\ ret.op = "get_surge_multiplier"
    /\ ZonesInReach = {2, 3}
    /\ ret.value = 13

\* the category table: base fare, cost per km, ETA multiplier (tenths), max km
CategoryTable ==
    [c \in 0 .. 4 |->
        CASE c = 0 -> <<50, 25, 10, 30>>
          [] c = 1 -> <<100, 40, 8, 50>>
          [] c = 2 -> <<30, 15, 7, 40>>
          [] c = 3 -> <<20, 10, 15, 10>>
          [] c = 4 -> <<35, 18, 12, 20>>]

\* C6: every sample of generate_synthetic_data has distance_km at most the max
\* distance of its category, fare at least the base fare of its category and
\* eta_minutes at least 5, for the category table of the claim, which is the
\* table the generator uses.
C6_SampleInvariants ==
    /\ \A i \in 1 .. Len(data) :
          /\ data[i].ride_category \in 0 .. 4
          /\ data[i].distance_km <= CategoryTable[data[i].ride_category][4] * KM
          /\ data[i].fare_bdt >= CategoryTable[data[i].ride_category][1] * BDT
          /\ data[i].eta_minutes >= 5 * MINUTE
    /\ \A c \in 0 .. 4 :
          CategoryTable[c] = <<CategoryProfile(c).base_fare_bdt,
                               CategoryProfile(c).cost_per_km_bdt,
                               CategoryProfile(c).eta_multiplier,
                               CategoryProfile(c).max_distance>>

\* the generator returned samples in which the clamp, the fare floor and the
\* ETA floor each decided a value
C6_Witness ==
    /\ ret.op = "generate_synthetic_data"
    /\ \E i \in 1 .. Len(data) :
          data[i].distance_km = CategoryTable[data[i].ride_category][4] * KM
    /\ \E i \in 1 .. Len(data) :
          /\ data[i].fare_bdt = CategoryTable[data[i].ride_category][1] * BDT
          /\ data[i].eta_minutes = 5 * MINUTE

\* the max distance (km) of the claim for a category value
MaxKm(category) ==
    CASE category = 0 -> 30
      [] category = 1 -> 50
      [] category = 2 -> 40
      [] category = 3 -> 10
      [] category = 4 -> 20
      [] OTHER -> 50

\* C7: in predict_ride_details_advanced the distance given to the models, given
\* to the confidence estimator and reported in the result is at most the max
\* distance of the category, by the table the generator uses, and at most 50 km
\* for a category outside the five codes; a call with well-formed coordinates
\* returns a prediction whatever the category.
C7_DistanceClamped ==
    /\ (PredictDone /\ ~MalformedCall)
          => /\ ret.outcome = "return"
             /\ ret.features[1] <= MaxKm(call.ride_category) * KM
             /\ ret.confidence_distance <= MaxKm(call.ride_category) * KM
             /\ ret.value.distance_km.amount <= MaxKm(call.ride_category) * 100
             /\ ret.value.prediction_confidence
                   = get_prediction_confidence(ret.confidence_distance,
                         call.time_of_day_hour, call.is_rainy, call.ride_category)
    /\ \A c \in 0 .. 4 : MaxKm(c) = CategoryProfile(c).max_distance

\* a ride of more than 50 km in an unknown category is reported as 50.00 km
C7_Witness ==
    /\ PredictDone /\ ~MalformedCall
    /\ call.ride_category = 7
    /\ call.destination_coords = MYMENSINGH_ROAD
    /\ ret.features[1] = 50 * KM
    /\ ret.value.distance_km = [amount |-> 5000, unit |-> "km"]

\* the two characters are the same letter, whatever their case
SameLetter(a, b) ==
    a = b \/ \E k \in 1 .. 26 : {a, b} = {UPPERCASE[k], LOWERCASE[k]}

\* the keyword occurs in the name, whatever the case of the name's letters
Occurs(keyword, name) ==
    \E i \in 0 .. (Len(name) - Len(keyword)) :
        \A j \in 1 .. Len(keyword) : SameLetter(name[i + j], keyword[j])

\* C8: get_recommended_destination returns the destination of the first of the
\* keywords gulshan, dhanmondi, mirpur that occurs in the pickup name, matched
\* without regard to case, and None when none occurs.
C8_FirstKeyword ==
    ret.op = "get_recommended_destination"
        => ret.value =
             (IF Occurs(<<"g", "u", "l", "s", "h", "a", "n">>,
                        call.pickup_location_name)
              THEN "Bashundhara R/A"
              ELSE IF Occurs(<<"d", "h", "a", "n", "m", "o", "n", "d", "i">>,
                             call.pickup_location_name)
              THEN "Motijheel"
              ELSE IF Occurs(<<"m", "i", "r", "p", "u", "r">>,
                             call.pickup_location_name)
              THEN "Uttara"
              ELSE None)

\* "MirpurGulshan" holds two keywords, in mixed case, and gets the earlier one
C8_Witness ==
    /\ ret.op = "get_recommended_destination"
    /\ call.pickup_location_name
          = <<"M", "i", "r", "p", "u", "r", "G", "u", "l", "s", "h", "a", "n">>
    /\ ret.value = "Bashundhara R/A"

\* a coordinate pair of the call does not unpack into two values
RejectedCall ==
    UnpackFails(call.pickup_coords) \/ UnpackFails(call.destination_coords)

\* C9: a call of predict_ride_details_advanced with malformed coordinates (here:
\* the ones the unpacking rejects) returns the error payload without a training
\* run, the model cache being left as it was.
C9_ValidationBeforeTraining ==
    (PredictDone /\ RejectedCall)
        => (ret.value = ErrorPayload /\ ~ret.trained
            /\ (LazyRuns = 0) = (fare_model_ = 0 /\ eta_model_ = 0))

\* the fields of a call with well-formed coordinates
PickupLat == call.pickup_coords.items[1].v
PickupLon == call.pickup_coords.items[2].v

SurgeBit == IF get_surge_multiplier(PickupLat, PickupLon) > 10 THEN 1 ELSE 0

\* C10: in a successful prediction surge_applied is true exactly when the surge
\* multiplier of the pickup is above 1.0; the impact of distance is 38; those of
\* demand_level and location_situation are both 5 + 10 * is_rainy
\* + 15 * surge_applied, capped at 40, hence in {5, 15, 20, 30}; that of
\* time_of_day is 25 for the hours 7-9 and 17-19, 15 for 10-16 and 20-21, else 5.
C10_SurgeAndImpacts ==
    (PredictDone /\ ~MalformedCall)
        => LET v == ret.value
               expected == 5 + 10 * call.is_rainy + 15 * SurgeBit
           IN  /\ v.surge_applied = (SurgeBit = 1)
               /\ v.feature_impacts.distance = 38
               /\ v.feature_impacts.demand_level
                     = (IF expected > 40 THEN 40 ELSE expected)
               /\ v.feature_impacts.location_situation = v.feature_impacts.demand_level
               /\ v.feature_impacts.demand_level \in {5, 15, 20, 30}
               /\ v.feature_impacts.time_of_day
                     = (IF call.time_of_day_hour \in (7 .. 9) \cup (17 .. 19) THEN 25
                        ELSE IF call.time_of_day_hour \in (10 .. 16) \cup (20 .. 21)
                        THEN 15
                        ELSE 5)

\* a rainy ride from a surge zone at 20 h: demand 30, time of day 15
C10_Witness ==
    /\ PredictDone /\ ~MalformedCall
    /\ call.time_of_day_hour = 20 /\ call.is_rainy = 1
    /\ ret.value.surge_applied
    /\ ret.value.feature_impacts.demand_level = 30
    /\ ret.value.feature_impacts.time_of_day = 15

====
